---- MODULE Spec2Model ----
(***************************************************************************)
(* Model of the Yggdrasil authentication / session service:                *)
(*   - JWT access tokens (GenerateJWT / ValidateJWT)                        *)
(*   - the session rendezvous (SessionHandler.Join / HasJoined)            *)
(*   - the token engine handlers (authenticate, refresh, validate,         *)
(*     invalidate, signout), whose code is not part of the sources and     *)
(*     is modelled from the specification.                                 *)
(* Time is counted in ticks; TicksPerSecond ticks make one second, so that *)
(* the truncation of JWT timestamps to whole seconds is visible.           *)
(***************************************************************************)
EXTENDS Integers, Sequences, FiniteSets, TLC

\* ------------------------------------------------------------------ bounds
TicksPerSecond == 2
MaxTicks == 3
MaxTokens == 2
MaxJoins == 2
MaxMinted == 1
MaxNames == 11
MaxGenerated == 2

\* ------------------------------------------------------ program constants
\* Session.IsValid: time.Since(s.CreatedAt) < 30*time.Second
SessionTTLSeconds == 30

\* SearchMultipleProfiles: maxProfiles := 10
maxProfiles == 10

\* Configured token windows, in seconds (valid -> stale -> invalid).
ValidityWindow == 1
RefreshWindow == 2

Seconds(n) == n * TicksPerSecond
SessionTTL == Seconds(SessionTTLSeconds)

\* ----------------------------------------------------------------- state
\* now, ticks    the clock, and the number of steps it has taken
\* jwtSecret     the signing secret (SetJWTSecret)
\* sessions      the session cache, keyed by serverId
\* revoked       the revocation set of token-IDs
\* refreshing    the refresh in flight between revoking and minting
\* hj            the HasJoined handlers in flight, one per worker
\* issued        the tokens handed to clients so far
\* resp          the last response sent by the auth and session handlers
\* storeDown     the profile store is failing (InternalError)
\* pstore        the properties of the profile objects the store holds
\* pout          the last response sent by the profile handlers
\* files         the contents of the two key files, "absent" when missing
\* generated     the number of key pairs generated so far
\* kout          the last result of LoadOrGenerateKeyPair
\* responseCache the cached metadata responses, by cache key (host)
\* mresp         the last response of GetAPIMetadata
\* vout          the last verdict of the input validators
\* joins, hits, served, parent, minted, parsed   history, read by no handler
VARIABLES now, ticks, jwtSecret, sessions, revoked, refreshing, hj, issued,
          resp, joins, hits, served, parent, minted, parsed, storeDown, pstore, pout,
          files, generated, kout, responseCache, mresp, vout

clock == <<now, ticks>>
tokenState == <<revoked, refreshing, issued, parent>>
sessionState == <<sessions, joins, hits, served>>
jwtState == <<minted, parsed>>
utilState == <<files, generated, kout, responseCache, mresp, vout>>
siteState == <<storeDown, pstore, pout, utilState>>

vars == <<now, ticks, jwtSecret, sessions, revoked, refreshing, hj, issued,
          resp, joins, hits, served, parent, minted, parsed, storeDown, pstore, pout,
          files, generated, kout, responseCache, mresp, vout>>

\* ------------------------------------------------------------ the store
Users == {"u1", "u2"}
ProfileIDs == {"p1", "p2", "p3"}
ServerIDs == {"s1"}
IPs == {"ip1", "ip2"}
Secrets == {"k1", "k2"}

ProfileOwner(p) == IF p = "p3" THEN "u2" ELSE "u1"
ProfileName(p) == CASE p = "p1" -> "Alice" [] p = "p2" -> "Bob" [] OTHER -> "Carol"
ProfileNames == {ProfileName(p) : p \in ProfileIDs}
ProfilesOf(u) == {p \in ProfileIDs : ProfileOwner(p) = u}

\* The profiles and names the requests of the model name: "p2" only makes
\* "u1" the owner of two profiles, and is interchangeable with "p1".
SelectableProfiles == {"p1", "p3"}
QueriedNames == {ProfileName(p) : p \in SelectableProfiles} \cup {"Nobody"}

\* The properties of a profile as the store holds them at start: the signed
\* textures property, and for "p1" a second signed property.
StoredProperties(p) ==
    IF p = "p1"
    THEN <<[name |-> "textures", value |-> "v1", signature |-> "sig(v1)"],
           [name |-> "cape", value |-> "c1", signature |-> "sig(c1)"]>>
    ELSE <<[name |-> "textures", value |-> "v" \o p, signature |-> "sig(v" \o p \o ")"]>>

\* storage.GetProfileByName: the profile of that name, or an error of kind
\* NotFound, or of kind InternalError while the store is failing.
GetProfileByName(name) ==
    IF storeDown THEN [err |-> TRUE, kind |-> "InternalError", ID |-> ""]
    ELSE IF \E p \in ProfileIDs : ProfileName(p) = name
    THEN [err |-> FALSE, kind |-> "",
          ID |-> CHOOSE p \in ProfileIDs : ProfileName(p) = name]
    ELSE [err |-> TRUE, kind |-> "NotFound", ID |-> ""]

\* ------------------------------------------------------------------- JWT
\* jwt.NewNumericDate truncates a time to jwt.TimePrecision (one second).
Truncate(t) == t - (t % TicksPerSecond)

\* A signed token: the claims and the secret its HMAC was computed under.
NoToken == [UserID |-> "", ProfileID |-> "", TokenID |-> 0,
            IssuedAt |-> 0, ExpiresAt |-> 0, sig |-> ""]
ForgedToken == [UserID |-> "u2", ProfileID |-> "p3", TokenID |-> 0,
                IssuedAt |-> 0, ExpiresAt |-> Seconds(1000), sig |-> "forged"]

GenerateJWT(userID, profileID, expiration, tnow, tokenID, secret) ==
    [UserID |-> userID, ProfileID |-> profileID, TokenID |-> tokenID,
     IssuedAt |-> Truncate(tnow), ExpiresAt |-> Truncate(tnow + expiration),
     sig |-> secret]

\* Faulty variant: the signature is not verified.
ValidateJWT_AnySecret(tok, tnow, secret) ==
    IF tnow < tok.ExpiresAt
    THEN [err |-> FALSE, UserID |-> tok.UserID, ProfileID |-> tok.ProfileID,
          TokenID |-> tok.TokenID]
    ELSE [err |-> TRUE, UserID |-> "", ProfileID |-> "", TokenID |-> 0]

\* Faulty variant: the expiry is not checked.
ValidateJWT_NoExpiry(tok, tnow, secret) ==
    IF tok.sig = secret
    THEN [err |-> FALSE, UserID |-> tok.UserID, ProfileID |-> tok.ProfileID,
          TokenID |-> tok.TokenID]
    ELSE [err |-> TRUE, UserID |-> "", ProfileID |-> "", TokenID |-> 0]

\* Faulty variant: a token is refused during the second it was issued in.
ValidateJWT_RejectsFresh(tok, tnow, secret) ==
    IF tok.sig = secret /\ tok.IssuedAt < Truncate(tnow) /\ tnow < tok.ExpiresAt
    THEN [err |-> FALSE, UserID |-> tok.UserID, ProfileID |-> tok.ProfileID,
          TokenID |-> tok.TokenID]
    ELSE [err |-> TRUE, UserID |-> "", ProfileID |-> "", TokenID |-> 0]

\* jwt.ParseWithClaims: HMAC check under jwtSecret, then exp: now < exp.
ValidateJWT(tok, tnow, secret) ==
    IF tok.sig = secret /\ tnow < tok.ExpiresAt
    THEN [err |-> FALSE, UserID |-> tok.UserID, ProfileID |-> tok.ProfileID,
          TokenID |-> tok.TokenID]
    ELSE [err |-> TRUE, UserID |-> "", ProfileID |-> "", TokenID |-> 0]

\* ------------------------------------------------------- state, continued
NoSession == [ServerID |-> "", AccessToken |-> 0, ProfileID |-> "",
              ClientIP |-> "", CreatedAt |-> 0, seq |-> 0]

\* Session.IsValid
SessionIsValid(s, tnow) == (tnow - s.CreatedAt) < SessionTTL

\* sessionCache.Get / Store / Delete: a map keyed by serverId.
SessionCacheGet(smap, serverID) ==
    IF smap[serverID] = NoSession THEN [err |-> TRUE, session |-> NoSession]
    ELSE [err |-> FALSE, session |-> smap[serverID]]
SessionCacheStore(smap, serverID, s) == [smap EXCEPT ![serverID] = s]
SessionCacheDelete(smap, serverID) == [smap EXCEPT ![serverID] = NoSession]

\* The last response sent: the handler, the status and error kind, the
\* branch of the handler that produced it, and the profile returned.
NoResp == [op |-> "", status |-> 0, err |-> "", why |-> "", profile |-> "",
           properties |-> <<>>]

NoRefresh == [tok |-> NoToken, sel |-> "", was |-> ""]

Handlers == {"h1", "h2"}
IdleHandler == [pc |-> "idle", username |-> "", serverId |-> "", ip |-> "",
                session |-> NoSession, profile |-> ""]

\* The last response of a profile handler: the handler and its request,
\* the outcome of the store call it made (if any), the status and error
\* kind, and the body.
NoOut == [op |-> "", req |-> <<>>, store |-> "", delivered |-> <<>>, status |-> 0,
          err |-> "", body |-> {}]

\* No key pair loaded yet, no cached response, no metadata response, no verdict.
NoKeyOut == [op |-> "", err |-> "", private |-> "", public |-> "",
             before |-> [private |-> "absent", public |-> "absent"], wrote |-> {}]

Hosts == {"localhost:8080", "127.0.0.1:8080", "ygg.example:25585", "skin.example"}
NoCached == [status |-> 0, host |-> "", key |-> "", filledWith |-> ""]
NoMeta == [host |-> "", fromCache |-> FALSE, filledWith |-> "", status |-> 0, err |-> "",
           body |-> [host |-> "", key |-> ""]]
NoVerdict == [op |-> "", input |-> <<>>, ok |-> FALSE, out |-> <<>>]

NoParse == [tok |-> NoToken, u |-> "", p |-> "", d |-> 0, at |-> 0, secret |-> "",
            seenAt |-> 0, seenUnder |-> "",
            res |-> [err |-> TRUE, UserID |-> "", ProfileID |-> "", TokenID |-> 0]]

Init ==
    /\ now = 0
    /\ ticks = 0
    /\ jwtSecret = "k1"
    /\ sessions = [s \in ServerIDs |-> NoSession]
    /\ revoked = {}
    /\ refreshing = NoRefresh
    /\ hj = [h \in Handlers |-> IdleHandler]
    /\ issued = {}
    /\ resp = NoResp
    /\ joins = 0
    /\ hits = [s \in ServerIDs |-> 0]
    /\ served = [n \in 1..MaxJoins |-> 0]
    /\ parent = {}
    /\ minted = {}
    /\ parsed = NoParse
    /\ storeDown = FALSE
    /\ pstore = [p \in ProfileIDs |-> StoredProperties(p)]
    /\ pout = NoOut
    /\ files = [private |-> "absent", public |-> "absent"]
    /\ generated = 0
    /\ kout = NoKeyOut
    /\ responseCache = [k \in Hosts |-> NoCached]
    /\ mresp = NoMeta
    /\ vout = NoVerdict

\* The passage of time.
TickSteps == {1, SessionTTL - 1}
Horizon == SessionTTL + MaxTicks - 1
Tick(d) ==
    /\ ticks < MaxTicks
    /\ now + d <= Horizon
    /\ now' = now + d
    /\ ticks' = ticks + 1
    /\ UNCHANGED <<siteState, jwtSecret, tokenState, sessionState, jwtState, hj, resp>>

\* ------------------------------------------------------------ responses
Respond(status, err) == [status |-> status, err |-> err]
RespondNoContent == Respond(204, "")
RespondIllegalArgument == Respond(400, "IllegalArgumentException")
RespondForbiddenOperation == Respond(403, "ForbiddenOperationException")
RespondInvalidToken == Respond(403, "ForbiddenOperationException")
RespondInternalError == Respond(500, "InternalServerError")
RespondJSON == Respond(200, "")

MkResp(op, o) ==
    [op |-> op, status |-> o.r.status, err |-> o.r.err, why |-> o.why, profile |-> "",
     properties |-> <<>>]

\* ------------------------------------------------------- token engine
\* The tokens a client can present: every token minted so far and a token
\* signed under a foreign secret.
Presentable == issued \cup {ForgedToken}
NextTokenID == Cardinality(issued) + 1

IsRevoked(tok) == tok.TokenID \in revoked
TokenAge(tok) == now - tok.IssuedAt

\* valid / stale / invalid, as the token engine classifies a token.
IsValidToken(tok) ==
    /\ ~ValidateJWT(tok, now, jwtSecret).err
    /\ ~IsRevoked(tok)
IsStaleToken(tok) ==
    /\ tok.sig = jwtSecret
    /\ ~IsRevoked(tok)
    /\ TokenAge(tok) >= Seconds(ValidityWindow)
    /\ TokenAge(tok) < Seconds(RefreshWindow)

\* Authenticate: on a credential match mint a token bound to the user and,
\* iff the user owns exactly one profile, to that profile.
SelectedOnLogin(u) ==
    IF Cardinality(ProfilesOf(u)) = 1 THEN CHOOSE p \in ProfilesOf(u) : TRUE ELSE ""

AuthenticateOutcome(u, pwOk) ==
    IF ~pwOk
    THEN [r |-> RespondForbiddenOperation, why |-> "credentials", newTok |-> NoToken]
    ELSE [r |-> RespondJSON, why |-> "ok",
          newTok |-> GenerateJWT(u, SelectedOnLogin(u), Seconds(ValidityWindow),
                                 now, NextTokenID, jwtSecret)]

Authenticate(u, pwOk) ==
    LET o == AuthenticateOutcome(u, pwOk) IN
    /\ (pwOk => Cardinality(issued) < MaxTokens)
    /\ issued' = IF pwOk THEN issued \cup {o.newTok} ELSE issued
    /\ resp' = MkResp("Authenticate", o)
    /\ UNCHANGED <<siteState, clock, jwtSecret, revoked, refreshing, parent, sessionState,
                   jwtState, hj>>

\* Validate: 204 only for a token in the valid state.
ValidateOutcome(tok) ==
    IF tok = NoToken THEN [r |-> RespondIllegalArgument, why |-> "bind"]
    ELSE IF ValidateJWT(tok, now, jwtSecret).err
    THEN [r |-> RespondInvalidToken, why |-> "token"]
    ELSE IF IsRevoked(tok) THEN [r |-> RespondInvalidToken, why |-> "revoked"]
    ELSE [r |-> RespondNoContent, why |-> "ok"]

Validate(tok) ==
    /\ resp' = MkResp("Validate", ValidateOutcome(tok))
    /\ UNCHANGED <<siteState, clock, jwtSecret, tokenState, sessionState, jwtState, hj>>

\* Faulty variant: invalidating a revoked token reinstates it.
InvalidateOutcome_Toggle(tok) ==
    IF tok = NoToken
    THEN [r |-> RespondIllegalArgument, why |-> "bind", revoked |-> revoked]
    ELSE IF tok.sig # jwtSecret
    THEN [r |-> RespondNoContent, why |-> "unknown", revoked |-> revoked]
    ELSE IF tok.TokenID \in revoked
    THEN [r |-> RespondNoContent, why |-> "already",
          revoked |-> revoked \ {tok.TokenID}]
    ELSE [r |-> RespondNoContent,
          why |-> IF now < tok.ExpiresAt THEN "valid" ELSE "expired",
          revoked |-> revoked \cup {tok.TokenID}]

\* Invalidate: record the token-ID in the revocation set; never an error
\* for a token that is already invalid.
InvalidateOutcome(tok) ==
    IF tok = NoToken
    THEN [r |-> RespondIllegalArgument, why |-> "bind", revoked |-> revoked]
    ELSE IF tok.sig # jwtSecret
    THEN [r |-> RespondNoContent, why |-> "unknown", revoked |-> revoked]
    ELSE [r |-> RespondNoContent,
          why |-> IF IsRevoked(tok) THEN "already"
                  ELSE IF now < tok.ExpiresAt THEN "valid" ELSE "expired",
          revoked |-> revoked \cup {tok.TokenID}]

Invalidate(tok) ==
    LET o == InvalidateOutcome(tok) IN
    /\ revoked' = o.revoked
    /\ resp' = MkResp("Invalidate", o)
    /\ UNCHANGED <<siteState, clock, jwtSecret, refreshing, issued, parent, sessionState,
                   jwtState, hj>>

\* Signout: every token of the user issued so far is revoked.
SignoutOutcome(u, pwOk) ==
    IF ~pwOk
    THEN [r |-> RespondForbiddenOperation, why |-> "credentials", revoked |-> revoked]
    ELSE [r |-> RespondNoContent, why |-> "ok",
          revoked |-> revoked \cup {t.TokenID : t \in {x \in issued : x.UserID = u}}]

Signout(u, pwOk) ==
    LET o == SignoutOutcome(u, pwOk) IN
    /\ revoked' = o.revoked
    /\ resp' = MkResp("Signout", o)
    /\ UNCHANGED <<siteState, clock, jwtSecret, refreshing, issued, parent, sessionState,
                   jwtState, hj>>

\* Faulty variant: a second profile selection is not rejected.
RefreshCheck_AllowsRebind(tok, sel) ==
    IF tok = NoToken THEN [r |-> RespondIllegalArgument, why |-> "bind"]
    ELSE IF tok.sig # jwtSecret THEN [r |-> RespondInvalidToken, why |-> "token"]
    ELSE IF IsRevoked(tok) THEN [r |-> RespondInvalidToken, why |-> "revoked"]
    ELSE IF TokenAge(tok) >= Seconds(RefreshWindow)
    THEN [r |-> RespondInvalidToken, why |-> "expired"]
    ELSE IF sel # "" /\ ProfileOwner(sel) # tok.UserID
    THEN [r |-> RespondForbiddenOperation, why |-> "owner"]
    ELSE [r |-> RespondJSON, why |-> "ok"]

\* Refresh: accept a valid or stale token; reject a second profile
\* selection and a profile the user does not own; revoke the old token-ID,
\* then mint the new token.
RefreshCheck(tok, sel) ==
    IF tok = NoToken THEN [r |-> RespondIllegalArgument, why |-> "bind"]
    ELSE IF tok.sig # jwtSecret THEN [r |-> RespondInvalidToken, why |-> "token"]
    ELSE IF IsRevoked(tok) THEN [r |-> RespondInvalidToken, why |-> "revoked"]
    ELSE IF TokenAge(tok) >= Seconds(RefreshWindow)
    THEN [r |-> RespondInvalidToken, why |-> "expired"]
    ELSE IF sel # "" /\ tok.ProfileID # ""
    THEN [r |-> RespondIllegalArgument, why |-> "rebind"]
    ELSE IF sel # "" /\ ProfileOwner(sel) # tok.UserID
    THEN [r |-> RespondForbiddenOperation, why |-> "owner"]
    ELSE [r |-> RespondJSON, why |-> "ok"]

\* Faulty variant: the old token-ID is not recorded.
RefreshRevoke_Forgets(tok) == revoked

\* The revocation set once the old token-ID is in it.
RefreshRevoke(tok) == revoked \cup {tok.TokenID}

RefreshMint(tok, sel) ==
    GenerateJWT(tok.UserID, IF sel # "" THEN sel ELSE tok.ProfileID,
                Seconds(ValidityWindow), now, NextTokenID, jwtSecret)

\* First half: the checks; on success the old token-ID is revoked.
RefreshBegin(tok, sel) ==
    LET o == RefreshCheck(tok, sel)
        ok == o.r.status = 200
    IN
    /\ refreshing = NoRefresh
    /\ (ok => Cardinality(issued) < MaxTokens)
    /\ revoked' = IF ok THEN RefreshRevoke(tok) ELSE revoked
    /\ refreshing' = IF ok
                     THEN [tok |-> tok, sel |-> sel,
                           was |-> IF now < tok.ExpiresAt THEN "valid" ELSE "stale"]
                     ELSE NoRefresh
    /\ resp' = IF ok THEN resp ELSE MkResp("Refresh", o)
    /\ UNCHANGED <<siteState, clock, jwtSecret, issued, parent, sessionState, jwtState, hj>>

\* Second half: the new token is minted and returned.
RefreshEnd ==
    LET t2 == RefreshMint(refreshing.tok, refreshing.sel) IN
    /\ refreshing # NoRefresh
    /\ issued' = issued \cup {t2}
    /\ parent' = parent \cup {[old |-> refreshing.tok, new |-> t2]}
    /\ refreshing' = NoRefresh
    /\ resp' = MkResp("Refresh", [r |-> RespondJSON, why |-> refreshing.was])
    /\ UNCHANGED <<siteState, clock, jwtSecret, revoked, sessionState, jwtState, hj>>

\* -------------------------------------------------- session rendezvous
\* The request bodies: the well-formed ones, and one with each required
\* field missing.
JoinRequests ==
    [AccessToken : Presentable, SelectedProfile : SelectableProfiles,
     ServerID : ServerIDs]
    \cup [AccessToken : {NoToken}, SelectedProfile : {"p3"}, ServerID : ServerIDs]
    \cup [AccessToken : issued, SelectedProfile : {""}, ServerID : ServerIDs]
    \cup [AccessToken : issued, SelectedProfile : {"p3"}, ServerID : {""}]

\* c.ShouldBindJSON with binding:"required" on every field
BindJoinRequest(req) ==
    req.AccessToken # NoToken /\ req.SelectedProfile # "" /\ req.ServerID # ""

\* The outcome of sessionCache.Store is drawn only when Join calls it.
StoreResults(req) ==
    LET claims == ValidateJWT(req.AccessToken, now, jwtSecret) IN
    IF /\ BindJoinRequest(req)
       /\ ~claims.err
       /\ claims.ProfileID # ""
       /\ claims.ProfileID = req.SelectedProfile
    THEN BOOLEAN ELSE {FALSE}

\* Faulty variant: the token's profile is not compared with selectedProfile.
JoinOutcome_NoProfileCheck(req, clientIP, storeErr) ==
    LET claims == ValidateJWT(req.AccessToken, now, jwtSecret)
        session == [ServerID |-> req.ServerID,
                    AccessToken |-> req.AccessToken.TokenID,
                    ProfileID |-> claims.ProfileID,
                    ClientIP |-> clientIP,
                    CreatedAt |-> now,
                    seq |-> joins + 1]
    IN
    IF ~BindJoinRequest(req)
    THEN [r |-> RespondIllegalArgument, why |-> "bind", sessions |-> sessions]
    ELSE IF claims.err
    THEN [r |-> RespondInvalidToken, why |-> "token", sessions |-> sessions]
    ELSE IF claims.ProfileID = ""
    THEN [r |-> RespondForbiddenOperation, why |-> "profile", sessions |-> sessions]
    ELSE IF storeErr
    THEN [r |-> RespondInternalError, why |-> "store", sessions |-> sessions]
    ELSE [r |-> RespondNoContent, why |-> "ok",
          sessions |-> SessionCacheStore(sessions, req.ServerID, session)]

\* Faulty variant: an entry already stored under the serverId is kept.
JoinOutcome_KeepsFirst(req, clientIP, storeErr) ==
    LET claims == ValidateJWT(req.AccessToken, now, jwtSecret)
        session == [ServerID |-> req.ServerID,
                    AccessToken |-> req.AccessToken.TokenID,
                    ProfileID |-> claims.ProfileID,
                    ClientIP |-> clientIP,
                    CreatedAt |-> now,
                    seq |-> joins + 1]
    IN
    IF ~BindJoinRequest(req)
    THEN [r |-> RespondIllegalArgument, why |-> "bind", sessions |-> sessions]
    ELSE IF claims.err
    THEN [r |-> RespondInvalidToken, why |-> "token", sessions |-> sessions]
    ELSE IF claims.ProfileID = "" \/ claims.ProfileID # req.SelectedProfile
    THEN [r |-> RespondForbiddenOperation, why |-> "profile", sessions |-> sessions]
    ELSE IF storeErr
    THEN [r |-> RespondInternalError, why |-> "store", sessions |-> sessions]
    ELSE [r |-> RespondNoContent, why |-> "ok",
          sessions |-> IF sessions[req.ServerID] # NoSession THEN sessions
                       ELSE SessionCacheStore(sessions, req.ServerID, session)]

\* SessionHandler.Join
JoinOutcome(req, clientIP, storeErr) ==
    LET claims == ValidateJWT(req.AccessToken, now, jwtSecret)
        session == [ServerID |-> req.ServerID,
                    AccessToken |-> req.AccessToken.TokenID,
                    ProfileID |-> claims.ProfileID,
                    ClientIP |-> clientIP,
                    CreatedAt |-> now,
                    seq |-> joins + 1]
    IN
    IF ~BindJoinRequest(req)
    THEN [r |-> RespondIllegalArgument, why |-> "bind", sessions |-> sessions]
    ELSE IF claims.err
    THEN [r |-> RespondInvalidToken, why |-> "token", sessions |-> sessions]
    ELSE IF claims.ProfileID = "" \/ claims.ProfileID # req.SelectedProfile
    THEN [r |-> RespondForbiddenOperation, why |-> "profile", sessions |-> sessions]
    ELSE IF storeErr
    THEN [r |-> RespondInternalError, why |-> "store", sessions |-> sessions]
    ELSE [r |-> RespondNoContent, why |-> "ok",
          sessions |-> SessionCacheStore(sessions, req.ServerID, session)]

Join(req, clientIP, storeErr) ==
    LET o == JoinOutcome(req, clientIP, storeErr)
        ok == o.r.status = 204
    IN
    /\ storeErr \in StoreResults(req)
    /\ (ok => joins < MaxJoins)
    /\ sessions' = o.sessions
    /\ joins' = IF ok THEN joins + 1 ELSE joins
    /\ hits' = IF ok THEN [hits EXCEPT ![req.ServerID] = 0] ELSE hits
    /\ resp' = MkResp("Join", o)
    /\ UNCHANGED <<siteState, clock, jwtSecret, tokenState, served, jwtState, hj>>

\* Faulty variant: a request from another ip uses the session up.
HasJoinedOutcome_ConsumesOnMismatch(username, serverID, clientIP) ==
    IF username = "" \/ serverID = ""
    THEN [r |-> RespondIllegalArgument, why |-> "params", profile |-> "",
          sessions |-> sessions]
    ELSE
    LET got == SessionCacheGet(sessions, serverID)
        profile == GetProfileByName(username)
    IN
    IF got.err \/ ~SessionIsValid(got.session, now)
    THEN [r |-> RespondNoContent, why |-> "session", profile |-> "",
          sessions |-> sessions]
    ELSE IF profile.err
    THEN [r |-> RespondNoContent, why |-> "profile", profile |-> "",
          sessions |-> sessions]
    ELSE IF clientIP # "" /\ got.session.ClientIP # clientIP
    THEN [r |-> RespondNoContent, why |-> "ip", profile |-> "",
          sessions |-> SessionCacheDelete(sessions, serverID)]
    ELSE [r |-> RespondJSON, why |-> "ok", profile |-> profile.ID,
          sessions |-> SessionCacheDelete(sessions, serverID)]

\* Faulty variant: the age of the session is not looked at.
HasJoinedOutcome_IgnoresExpiry(username, serverID, clientIP) ==
    IF username = "" \/ serverID = ""
    THEN [r |-> RespondIllegalArgument, why |-> "params", profile |-> "",
          sessions |-> sessions]
    ELSE
    LET got == SessionCacheGet(sessions, serverID)
        profile == GetProfileByName(username)
    IN
    IF got.err
    THEN [r |-> RespondNoContent, why |-> "session", profile |-> "",
          sessions |-> sessions]
    ELSE IF profile.err
    THEN [r |-> RespondNoContent, why |-> "profile", profile |-> "",
          sessions |-> sessions]
    ELSE IF clientIP # "" /\ got.session.ClientIP # clientIP
    THEN [r |-> RespondNoContent, why |-> "ip", profile |-> "",
          sessions |-> sessions]
    ELSE [r |-> RespondJSON, why |-> "ok", profile |-> profile.ID,
          sessions |-> SessionCacheDelete(sessions, serverID)]

\* Faulty variant: the session is not deleted on a hit.
HasJoinedOutcome_KeepsSession(username, serverID, clientIP) ==
    IF username = "" \/ serverID = ""
    THEN [r |-> RespondIllegalArgument, why |-> "params", profile |-> "",
          sessions |-> sessions]
    ELSE
    LET got == SessionCacheGet(sessions, serverID)
        profile == GetProfileByName(username)
    IN
    IF got.err \/ ~SessionIsValid(got.session, now)
    THEN [r |-> RespondNoContent, why |-> "session", profile |-> "",
          sessions |-> sessions]
    ELSE IF profile.err
    THEN [r |-> RespondNoContent, why |-> "profile", profile |-> "",
          sessions |-> sessions]
    ELSE IF clientIP # "" /\ got.session.ClientIP # clientIP
    THEN [r |-> RespondNoContent, why |-> "ip", profile |-> "",
          sessions |-> sessions]
    ELSE [r |-> RespondJSON, why |-> "ok", profile |-> profile.ID,
          sessions |-> sessions]

\* SessionHandler.HasJoined
HasJoinedOutcome(username, serverID, clientIP) ==
    IF username = "" \/ serverID = ""
    THEN [r |-> RespondIllegalArgument, why |-> "params", profile |-> "",
          sessions |-> sessions]
    ELSE
    LET got == SessionCacheGet(sessions, serverID)
        profile == GetProfileByName(username)
    IN
    IF got.err \/ ~SessionIsValid(got.session, now)
    THEN [r |-> RespondNoContent, why |-> "session", profile |-> "",
          sessions |-> sessions]
    ELSE IF profile.err
    THEN [r |-> RespondNoContent, why |-> "profile", profile |-> "",
          sessions |-> sessions]
    ELSE IF clientIP # "" /\ got.session.ClientIP # clientIP
    THEN [r |-> RespondNoContent, why |-> "ip", profile |-> "",
          sessions |-> sessions]
    ELSE [r |-> RespondJSON, why |-> "ok", profile |-> profile.ID,
          sessions |-> SessionCacheDelete(sessions, serverID)]

HasJoined(username, serverID, clientIP) ==
    LET o == HasJoinedOutcome(username, serverID, clientIP)
        ok == o.r.status = 200
        n == sessions[serverID].seq
    IN
    /\ sessions' = o.sessions
    /\ hits' = IF ok THEN [hits EXCEPT ![serverID] = @ + 1] ELSE hits
    /\ served' = IF ok THEN [served EXCEPT ![n] = @ + 1] ELSE served
    /\ resp' = [MkResp("HasJoined", o) EXCEPT
                  !.profile = o.profile,
                  !.properties = IF ok THEN pstore[o.profile] ELSE <<>>]
    /\ UNCHANGED <<siteState, clock, jwtSecret, tokenState, joins, jwtState, hj>>

\* The background sweeper evicts the entries older than 30 s.
Sweep ==
    /\ \E s \in ServerIDs :
          sessions[s] # NoSession /\ now - sessions[s].CreatedAt > SessionTTL
    /\ sessions' = [s \in ServerIDs |->
                      IF sessions[s] # NoSession
                         /\ now - sessions[s].CreatedAt > SessionTTL
                      THEN NoSession ELSE sessions[s]]
    /\ UNCHANGED <<siteState, clock, jwtSecret, tokenState, joins, hits, served, jwtState,
                   hj, resp>>

\* The queries: the well-formed ones, and one with each required
\* parameter missing.
HasJoinedQueries ==
    [username : QueriedNames, serverId : ServerIDs, ip : IPs \cup {""}]
    \cup [username : {""}, serverId : ServerIDs, ip : {""}]
    \cup [username : {"Carol"}, serverId : {""}, ip : {""}]

\* --------------------------------------- HasJoined, one statement at a time
\* Two requests served by different goroutines interleave between the
\* statements of the handler; the session cache serialises its own
\* operations and nothing more.

\* The parameters, sessionCache.Get and Session.IsValid.
HasJoinedGet(h, username, serverID, clientIP) ==
    LET got == SessionCacheGet(sessions, serverID) IN
    /\ hj[h].pc = "idle"
    /\ IF username = "" \/ serverID = ""
       THEN /\ resp' = MkResp("HasJoined", [r |-> RespondIllegalArgument, why |-> "params"])
            /\ hj' = hj
       ELSE IF got.err \/ ~SessionIsValid(got.session, now)
       THEN /\ resp' = MkResp("HasJoined", [r |-> RespondNoContent, why |-> "session"])
            /\ hj' = hj
       ELSE /\ resp' = resp
            /\ hj' = [hj EXCEPT ![h] = [pc |-> "got", username |-> username,
                                        serverId |-> serverID, ip |-> clientIP,
                                        session |-> got.session, profile |-> ""]]
    /\ UNCHANGED <<siteState, clock, jwtSecret, tokenState, sessionState, jwtState>>

\* storage.GetProfileByName, the ip check, sessionCache.Delete and the answer.
HasJoinedFinish(h) ==
    LET l == hj[h]
        profile == GetProfileByName(l.username)
        ok == ~profile.err /\ ~(l.ip # "" /\ l.session.ClientIP # l.ip)
    IN
    /\ l.pc = "got"
    /\ hj' = [hj EXCEPT ![h] = IdleHandler]
    /\ sessions' = IF ok THEN SessionCacheDelete(sessions, l.serverId) ELSE sessions
    /\ hits' = IF ok THEN [hits EXCEPT ![l.serverId] = @ + 1] ELSE hits
    /\ served' = IF ok THEN [served EXCEPT ![l.session.seq] = @ + 1] ELSE served
    /\ resp' = IF profile.err
               THEN MkResp("HasJoined", [r |-> RespondNoContent, why |-> "profile"])
               ELSE IF ~ok
               THEN MkResp("HasJoined", [r |-> RespondNoContent, why |-> "ip"])
               ELSE [MkResp("HasJoined", [r |-> RespondJSON, why |-> "ok"])
                       EXCEPT !.profile = profile.ID,
                              !.properties = pstore[profile.ID]]
    /\ UNCHANGED <<siteState, clock, jwtSecret, tokenState, joins, jwtState>>

\* ------------------------------------------------- the JWT functions alone
Lifetimes == 1..(2 * TicksPerSecond)

SetJWTSecret(secret) ==
    /\ jwtSecret' = secret
    /\ UNCHANGED <<siteState, clock, tokenState, sessionState, jwtState, hj, resp>>

\* A call of GenerateJWT, remembered with its arguments, its instant and
\* the secret it signed under.
MintJWT(userID, profileID, d) ==
    /\ Cardinality(minted) < MaxMinted
    /\ minted' = minted \cup
         {[tok |-> GenerateJWT(userID, profileID, d, now, Cardinality(minted) + 1,
                               jwtSecret),
           u |-> userID, p |-> profileID, d |-> d, at |-> now, secret |-> jwtSecret]}
    /\ UNCHANGED <<siteState, clock, jwtSecret, tokenState, sessionState, parsed, hj, resp>>

\* A call of ValidateJWT on a minted token, remembered with its instant,
\* the secret in force and its result.
ParseJWT(m) ==
    /\ parsed' = [tok |-> m.tok, u |-> m.u, p |-> m.p, d |-> m.d, at |-> m.at,
                  secret |-> m.secret, seenAt |-> now, seenUnder |-> jwtSecret,
                  res |-> ValidateJWT(m.tok, now, jwtSecret)]
    /\ UNCHANGED <<siteState, clock, jwtSecret, tokenState, sessionState, minted, hj, resp>>

\* ----------------------------------------------------- profile handlers
\* The store starts and stops failing.
StoreFlips ==
    /\ storeDown' = ~storeDown
    /\ UNCHANGED <<pstore, pout, utilState, clock, jwtSecret, tokenState, sessionState,
                   jwtState, hj, resp>>

\* storage.GetProfilesByNames: the profiles whose name is among the names
\* asked for, in no particular order.
GetProfilesByNames(names) ==
    IF storeDown THEN [err |-> TRUE, kind |-> "InternalError", profiles |-> {}]
    ELSE [err |-> FALSE, kind |-> "",
          profiles |-> {p \in ProfileIDs :
                          \E i \in 1..Len(names) : names[i] = ProfileName(p)}]

\* The request bodies: lists of up to MaxNames names, and a body that is
\* no list of strings.
BaseLists ==
    {<<>>} \cup {<<a>> : a \in QueriedNames}
           \cup {<<a, b>> : a \in QueriedNames, b \in QueriedNames}
Pad(base, n) == [i \in 1..n |-> IF i <= Len(base) THEN base[i] ELSE "Nobody"]
NameLists == {Pad(b, n) : b \in BaseLists, n \in 2..MaxNames} \cup BaseLists
SearchBodies == [bind : {TRUE}, names : NameLists] \cup {[bind |-> FALSE, names |-> <<>>]}

\* Faulty variant: no ceiling on the number of names.
SearchMultipleProfilesOutcome_NoCeiling(body) ==
    IF ~body.bind
    THEN [r |-> RespondIllegalArgument, store |-> "", body |-> {}]
    ELSE
    LET got == GetProfilesByNames(body.names) IN
    IF got.err
    THEN [r |-> RespondInternalError, store |-> got.kind, body |-> {}]
    ELSE [r |-> RespondJSON, store |-> "ok",
          body |-> {[id |-> p, name |-> ProfileName(p)] : p \in got.profiles}]

\* ProfileHandler.SearchMultipleProfiles
SearchMultipleProfilesOutcome(body) ==
    IF ~body.bind
    THEN [r |-> RespondIllegalArgument, store |-> "", body |-> {}]
    ELSE IF Len(body.names) > maxProfiles
    THEN [r |-> RespondForbiddenOperation, store |-> "", body |-> {}]
    ELSE
    LET got == GetProfilesByNames(body.names) IN
    IF got.err
    THEN [r |-> RespondInternalError, store |-> got.kind, body |-> {}]
    ELSE [r |-> RespondJSON, store |-> "ok",
          body |-> {[id |-> p, name |-> ProfileName(p)] : p \in got.profiles}]

SearchMultipleProfiles(body) ==
    LET o == SearchMultipleProfilesOutcome(body) IN
    /\ pout' = [op |-> "SearchMultipleProfiles", req |-> body, store |-> o.store,
                delivered |-> <<>>, status |-> o.r.status, err |-> o.r.err, body |-> o.body]
    /\ UNCHANGED <<storeDown, pstore, utilState, clock, jwtSecret, tokenState,
                   sessionState, jwtState, hj, resp>>

\* strconv.ParseBool
ParseBool(str) ==
    IF str \in {"1", "t", "T", "TRUE", "true", "True"} THEN [err |-> FALSE, value |-> TRUE]
    ELSE IF str \in {"0", "f", "F", "FALSE", "false", "False"}
    THEN [err |-> FALSE, value |-> FALSE]
    ELSE [err |-> TRUE, value |-> FALSE]

\* storage.GetProfileByUUID: the profile object of that UUID, or an error of
\* kind NotFound, or of kind InternalError while the store is failing.
StorageGetProfileByUUID(uuid) ==
    IF storeDown THEN [err |-> TRUE, kind |-> "InternalError", Properties |-> <<>>]
    ELSE IF uuid \in ProfileIDs
    THEN [err |-> FALSE, kind |-> "ok", Properties |-> pstore[uuid]]
    ELSE [err |-> TRUE, kind |-> "NotFound", Properties |-> <<>>]

\* for i := range profile.Properties { profile.Properties[i].Signature = "" }
BlankSignatures(props) ==
    [i \in 1..Len(props) |-> [props[i] EXCEPT !.signature = ""]]

\* The query parameter `unsigned`: true unless it parses to false.
Unsigned(param) ==
    IF param # "" /\ ~ParseBool(param).err THEN ParseBool(param).value ELSE TRUE

\* ProfileHandler.GetProfileByUUID.  The handler blanks the signatures on the
\* object the store returned; `shared` tells whether that object is the one
\* the store keeps and hands out again, or a copy made for this call.
GetProfileByUUIDOutcome(uuid, param, shared) ==
    IF uuid = ""
    THEN [r |-> RespondIllegalArgument, store |-> "", delivered |-> <<>>,
          body |-> <<>>, pstore |-> pstore]
    ELSE
    LET got == StorageGetProfileByUUID(uuid) IN
    IF got.err
    THEN [r |-> RespondNoContent, store |-> got.kind, delivered |-> <<>>,
          body |-> <<>>, pstore |-> pstore]
    ELSE IF Unsigned(param)
    THEN [r |-> RespondJSON, store |-> "ok", delivered |-> got.Properties,
          body |-> BlankSignatures(got.Properties),
          pstore |-> IF shared
                     THEN [pstore EXCEPT ![uuid] = BlankSignatures(got.Properties)]
                     ELSE pstore]
    ELSE [r |-> RespondJSON, store |-> "ok", delivered |-> got.Properties,
          body |-> got.Properties, pstore |-> pstore]

GetProfileByUUID(uuid, param, shared) ==
    LET o == GetProfileByUUIDOutcome(uuid, param, shared) IN
    /\ pstore' = o.pstore
    /\ pout' = [op |-> "GetProfileByUUID", req |-> <<uuid, param>>, store |-> o.store,
                delivered |-> o.delivered, status |-> o.r.status, err |-> o.r.err,
                body |-> o.body]
    /\ UNCHANGED <<storeDown, utilState, clock, jwtSecret, tokenState, sessionState,
                   jwtState, hj, resp>>

UUIDs == ProfileIDs \cup {"", "p9"}
UnsignedParams == {"", "true", "false", "0", "yes"}

\* ------------------------------------------------------------ key files
\* GenerateRSAKeyPair: the n-th pair generated; no two pairs share a key.
PrivateKeys == <<"priv1", "priv2", "priv3", "priv4">>
PublicKeys == <<"pub1", "pub2", "pub3", "pub4">>
GenerateRSAKeyPair(n) == [private |-> PrivateKeys[n], public |-> PublicKeys[n]]

KeyFiles == {"private", "public"}
fileExists(f, name) == f[name] # "absent"

\* The step of LoadOrGenerateKeyPair at which the operating system fails.
IOFaults == {"none", "read", "generate", "savePrivate", "savePublic"}

LoadOrGenerateKeyPairOutcome_AlwaysGenerates(f, gen, io) ==
    LET pair == GenerateRSAKeyPair(gen + 1) IN
    [err |-> "", private |-> pair.private, public |-> pair.public,
     files |-> [private |-> pair.private, public |-> pair.public],
     generated |-> gen + 1, wrote |-> {"private", "public"}]

\* LoadOrGenerateKeyPair on key files f after gen generated pairs.
LoadOrGenerateKeyPairOutcome(f, gen, io) ==
    IF fileExists(f, "private") /\ fileExists(f, "public")
    THEN IF io = "read"
         THEN [err |-> "failed to load key", private |-> "", public |-> "",
               files |-> f, generated |-> gen, wrote |-> {}]
         ELSE [err |-> "", private |-> f.private, public |-> f.public,
               files |-> f, generated |-> gen, wrote |-> {}]
    ELSE IF io = "generate"
    THEN [err |-> "failed to generate key pair", private |-> "", public |-> "",
          files |-> f, generated |-> gen, wrote |-> {}]
    ELSE LET pair == GenerateRSAKeyPair(gen + 1) IN
         IF io = "savePrivate"
         THEN [err |-> "failed to save private key", private |-> "", public |-> "",
               files |-> f, generated |-> gen + 1, wrote |-> {}]
         ELSE IF io = "savePublic"
         THEN [err |-> "failed to save public key", private |-> "", public |-> "",
               files |-> [f EXCEPT !.private = pair.private],
               generated |-> gen + 1, wrote |-> {"private"}]
         ELSE [err |-> "", private |-> pair.private, public |-> pair.public,
               files |-> [private |-> pair.private, public |-> pair.public],
               generated |-> gen + 1, wrote |-> {"private", "public"}]

LoadOrGenerateKeyPair(io) ==
    LET o == LoadOrGenerateKeyPairOutcome(files, generated, io) IN
    /\ o.generated <= MaxGenerated
    /\ files' = o.files
    /\ generated' = o.generated
    /\ kout' = [op |-> "LoadOrGenerateKeyPair", err |-> o.err, private |-> o.private,
                public |-> o.public, before |-> files, wrote |-> o.wrote]
    /\ UNCHANGED <<responseCache, mresp, vout, storeDown, pstore, pout, clock, jwtSecret,
                   tokenState, sessionState, jwtState, hj, resp>>

\* The operator removes a key file.
RemoveKeyFile(name) ==
    /\ fileExists(files, name)
    /\ files' = [files EXCEPT ![name] = "absent"]
    /\ UNCHANGED <<generated, kout, responseCache, mresp, vout, storeDown, pstore, pout,
                   clock, jwtSecret, tokenState, sessionState, jwtState, hj, resp>>

\* ------------------------------------------------------- metadata cache
\* The hosts warmupAPIMetadata fills the cache for; the last one is the
\* configured host and port.
commonHosts == {"localhost:8080", "127.0.0.1:8080", "ygg.example:25585"}

\* loadPublicKey for a storage other than blessing_skin: the public key file.
loadPublicKey(f) ==
    IF fileExists(f, "public") THEN [err |-> FALSE, key |-> f.public]
    ELSE [err |-> TRUE, key |-> ""]

\* The serialized APIMetadata: the links are built from the host, the rest
\* from the configuration, and signaturePublickey is the key.
APIMetadata(host, key) == [host |-> host, key |-> key]

\* warmupAPIMetadata: one entry per common host; a key that cannot be loaded
\* is replaced by the empty string.
warmupAPIMetadata(cache, f) ==
    LET got == loadPublicKey(f)
        publicKey == IF got.err THEN "" ELSE got.key
    IN  [k \in Hosts |->
            IF k \in commonHosts
            THEN [status |-> 200, host |-> k, key |-> publicKey, filledWith |-> f.public]
            ELSE cache[k]]

\* WarmupCaches under a configuration with the response cache enabled or not
\* and the metadata cache enabled or not.
WarmupCaches(enabled, apiMetadata) ==
    /\ responseCache' = IF enabled /\ apiMetadata
                        THEN warmupAPIMetadata(responseCache, files)
                        ELSE responseCache
    /\ UNCHANGED <<files, generated, kout, mresp, vout, storeDown, pstore, pout, clock,
                   jwtSecret, tokenState, sessionState, jwtState, hj, resp>>

\* Faulty variant: a failed key load is cached as metadata with an empty key.
GetAPIMetadataOutcome_CachesFailure(host, cache, f) ==
    LET got == loadPublicKey(f) IN
    IF cache[host].status # 0
    THEN [status |-> 200, err |-> "", fromCache |-> TRUE,
          filledWith |-> cache[host].filledWith,
          body |-> APIMetadata(cache[host].host, cache[host].key), cache |-> cache]
    ELSE IF got.err
    THEN [status |-> 500, err |-> "InternalServerError", fromCache |-> FALSE,
          filledWith |-> f.public, body |-> APIMetadata("", ""),
          cache |-> [cache EXCEPT ![host] =
                        [status |-> 200, host |-> host, key |-> "",
                         filledWith |-> f.public]]]
    ELSE [status |-> 200, err |-> "", fromCache |-> FALSE, filledWith |-> f.public,
          body |-> APIMetadata(host, got.key),
          cache |-> [cache EXCEPT ![host] =
                        [status |-> 200, host |-> host, key |-> got.key,
                         filledWith |-> f.public]]]

\* MetaHandler.GetAPIMetadata for a request host, on cache `cache` and key
\* files f.
GetAPIMetadataOutcome(host, cache, f) ==
    LET got == loadPublicKey(f) IN
    IF cache[host].status # 0
    THEN [status |-> 200, err |-> "", fromCache |-> TRUE,
          filledWith |-> cache[host].filledWith,
          body |-> APIMetadata(cache[host].host, cache[host].key), cache |-> cache]
    ELSE IF got.err
    THEN [status |-> 500, err |-> "InternalServerError", fromCache |-> FALSE,
          filledWith |-> f.public, body |-> APIMetadata("", ""), cache |-> cache]
    ELSE [status |-> 200, err |-> "", fromCache |-> FALSE, filledWith |-> f.public,
          body |-> APIMetadata(host, got.key),
          cache |-> [cache EXCEPT ![host] =
                        [status |-> 200, host |-> host, key |-> got.key,
                         filledWith |-> f.public]]]

GetAPIMetadata(host) ==
    LET o == GetAPIMetadataOutcome(host, responseCache, files) IN
    /\ responseCache' = o.cache
    /\ mresp' = [host |-> host, fromCache |-> o.fromCache, filledWith |-> o.filledWith,
                 status |-> o.status, err |-> o.err, body |-> o.body]
    /\ UNCHANGED <<files, generated, kout, vout, storeDown, pstore, pout, clock,
                   jwtSecret, tokenState, sessionState, jwtState, hj, resp>>

\* A cached response reaches the end of its life.
ExpireCachedResponse(k) ==
    /\ responseCache[k].status # 0
    /\ responseCache' = [responseCache EXCEPT ![k] = NoCached]
    /\ UNCHANGED <<files, generated, kout, mresp, vout, storeDown, pstore, pout, clock,
                   jwtSecret, tokenState, sessionState, jwtState, hj, resp>>

\* ----------------------------------------------------- input validators
\* A string is a sequence of one-character strings.  The inputs are written
\* as runs <<c, n>>: the character c, n times.
Rep(c, n) == [i \in 1..n |-> c]

RECURSIVE Str(_)
Str(runs) == IF runs = <<>> THEN <<>>
             ELSE Rep(Head(runs)[1], Head(runs)[2]) \o Str(Tail(runs))

\* The characters of the inputs: letters and a digit standing for their
\* classes, the punctuation of the patterns, white space, and one other.
SpaceChars == {" ", "\t", "\n"}
LowerHexChars == {"a", "7"}
LetterChars == {"a", "g", "A", "Z"}
NameChars == LetterChars \cup {"7", "_"}
LocalChars == LetterChars \cup {"7", ".", "_", "%", "+", "-"}
DomainChars == LetterChars \cup {"7", ".", "-"}

MaxInputLen == 255
MaxEmailLen == 254
UUIDLen == 32
MinNameLen == 3
MaxNameLen == 16

\* A pattern ^[class]{lo,hi}$
MatchClass(str, class, lo, hi) ==
    /\ Len(str) >= lo
    /\ Len(str) <= hi
    /\ \A i \in 1..Len(str) : str[i] \in class

\* emailRegex: ^[local]+@[domain]+\.[letters]{2,}$ ; the local part and the
\* domain hold no @, and the letters after the last dot hold no dot.
emailRegex(str) ==
    LET ats == {i \in 1..Len(str) : str[i] = "@"}
        at == CHOOSE i \in ats : TRUE
        dots == {j \in 1..Len(str) : str[j] = "." /\ j > at}
        dot == CHOOSE j \in dots : \A k \in dots : k <= j
    IN  /\ Cardinality(ats) = 1
        /\ dots # {}
        /\ at > 1
        /\ dot > at + 1
        /\ Len(str) - dot >= 2
        /\ \A i \in 1..(at - 1) : str[i] \in LocalChars
        /\ \A i \in (at + 1)..(dot - 1) : str[i] \in DomainChars
        /\ \A i \in (dot + 1)..Len(str) : str[i] \in LetterChars

IsValidEmail(email) == IF Len(email) > MaxEmailLen THEN FALSE ELSE emailRegex(email)
IsValidUUIDFormat(uuid) ==
    Len(uuid) = UUIDLen /\ MatchClass(uuid, LowerHexChars, UUIDLen, UUIDLen)
IsValidPlayerName(name) == MatchClass(name, NameChars, MinNameLen, MaxNameLen)
IsEmailFormat(input) == \E i \in 1..Len(input) : input[i] = "@"

\* strings.TrimSpace
TrimSpace(str) ==
    LET solid == {i \in 1..Len(str) : str[i] \notin SpaceChars} IN
    IF solid = {} THEN <<>>
    ELSE SubSeq(str, CHOOSE i \in solid : \A k \in solid : i <= k,
                     CHOOSE j \in solid : \A k \in solid : k <= j)

SanitizeInput(input) ==
    LET trimmed == TrimSpace(input) IN
    IF Len(trimmed) > MaxInputLen THEN SubSeq(trimmed, 1, MaxInputLen) ELSE trimmed

ValidateLoginInput(username, password) ==
    LET u == SanitizeInput(username)
        pw == SanitizeInput(password)
    IN  IF u = <<>> \/ pw = <<>> THEN FALSE
        ELSE IF Len(pw) > MaxInputLen THEN FALSE
        ELSE IF IsEmailFormat(u) THEN IsValidEmail(u)
        ELSE IsValidPlayerName(u)

ValidateUUIDInput(uuid) ==
    LET u == SanitizeInput(uuid) IN u # <<>> /\ IsValidUUIDFormat(u)

ValidatePlayerNameInput(name) ==
    LET n == SanitizeInput(name) IN n # <<>> /\ IsValidPlayerName(n)

\* The inputs tried, as runs.
UsernameInputs ==
    { <<>>, << <<" ", 3>> >>,
      << <<"a", 5>> >>, << <<"a", 2>> >>, << <<"a", 17>> >>, << <<"a", 300>> >>,
      << <<" ", 1>>, <<"a", 5>>, <<" ", 1>> >>,
      << <<"a", 3>>, <<"!", 1>> >>,
      << <<"a", 1>>, <<"@", 1>>, <<"g", 1>>, <<".", 1>>, <<"g", 2>> >>,
      << <<"a", 249>>, <<"@", 1>>, <<"g", 1>>, <<".", 1>>, <<"g", 2>> >>,
      << <<"a", 250>>, <<"@", 1>>, <<"g", 1>>, <<".", 1>>, <<"g", 2>> >>,
      << <<"a", 1>>, <<"@", 1>>, <<"g", 1>> >>,
      << <<"\t", 1>>, <<"a", 1>>, <<"@", 1>>, <<"g", 1>>, <<".", 1>>, <<"g", 2>> >> }

PasswordInputs ==
    { <<>>, << <<" ", 1>> >>,
      << <<"g", 2>> >>, << <<"g", 255>> >>, << <<"g", 256>> >>, << <<"g", 300>> >>,
      << <<" ", 1>>, <<"g", 2>>, <<" ", 1>> >>,
      << <<" ", 1>>, <<"g", 255>>, <<" ", 1>> >>,
      << <<"g", 1>>, <<" ", 1>>, <<"g", 1>> >> }

UUIDInputs ==
    { <<>>,
      << <<"a", 32>> >>, << <<"7", 16>>, <<"a", 16>> >>, << <<"A", 32>> >>,
      << <<"a", 31>> >>, << <<"a", 33>> >>, << <<"g", 32>> >>,
      << <<"a", 8>>, <<"-", 1>>, <<"a", 4>>, <<"-", 1>>, <<"a", 4>>, <<"-", 1>>,
         <<"a", 4>>, <<"-", 1>>, <<"a", 12>> >>,
      << <<" ", 1>>, <<"a", 32>> >>, << <<"a", 32>>, <<"\n", 1>> >>,
      << <<"a", 16>>, <<" ", 1>>, <<"a", 15>> >> }

PlayerNameInputs ==
    { <<>>,
      << <<"a", 3>> >>, << <<"a", 2>> >>, << <<"a", 16>> >>, << <<"a", 17>> >>,
      << <<"_", 1>>, <<"7", 1>>, <<"Z", 1>> >>,
      << <<"a", 1>>, <<"-", 1>>, <<"a", 1>> >>,
      << <<" ", 1>>, <<"a", 3>> >>, << <<"a", 3>>, <<" ", 1>> >>,
      << <<"a", 1>>, <<" ", 1>>, <<"a", 1>> >> }

SanitizeInputs ==
    { <<>>, << <<" ", 2>> >>,
      << <<"g", 3>> >>, << <<"g", 255>> >>, << <<"g", 256>> >>,
      << <<" ", 1>>, <<"g", 3>>, <<"\t", 1>> >>,
      << <<"g", 1>>, <<" ", 1>>, <<"g", 1>> >>,
      << <<"g", 255>>, <<" ", 3>> >>,
      << <<"\n", 1>>, <<"g", 300>> >>,
      << <<"g", 254>>, <<" ", 1>>, <<"g", 5>> >>,
      << <<"g", 250>>, <<" ", 10>>, <<"g", 5>> >> }

\* A call of SanitizeInput, remembered with its result.
InputSanitized(input) ==
    /\ vout' = [op |-> "SanitizeInput", input |-> <<input>>, ok |-> TRUE,
                out |-> SanitizeInput(Str(input))]
    /\ UNCHANGED <<files, generated, kout, responseCache, mresp, storeDown, pstore, pout,
                   clock, jwtSecret, tokenState, sessionState, jwtState, hj, resp>>

LoginInputValidated(u, pw) ==
    /\ vout' = [op |-> "ValidateLoginInput", input |-> <<u, pw>>,
                ok |-> ValidateLoginInput(Str(u), Str(pw)), out |-> <<>>]
    /\ UNCHANGED <<files, generated, kout, responseCache, mresp, storeDown, pstore, pout,
                   clock, jwtSecret, tokenState, sessionState, jwtState, hj, resp>>

UUIDInputValidated(u) ==
    /\ vout' = [op |-> "ValidateUUIDInput", input |-> <<u>>,
                ok |-> ValidateUUIDInput(Str(u)), out |-> <<>>]
    /\ UNCHANGED <<files, generated, kout, responseCache, mresp, storeDown, pstore, pout,
                   clock, jwtSecret, tokenState, sessionState, jwtState, hj, resp>>

PlayerNameInputValidated(n) ==
    /\ vout' = [op |-> "ValidatePlayerNameInput", input |-> <<n>>,
                ok |-> ValidatePlayerNameInput(Str(n)), out |-> <<>>]
    /\ UNCHANGED <<files, generated, kout, responseCache, mresp, storeDown, pstore, pout,
                   clock, jwtSecret, tokenState, sessionState, jwtState, hj, resp>>

\* -------------------------------------------------------- specifications
\* The session rendezvous, each request served to completion: clients log
\* in, join and are looked up, while time passes and the sweeper runs.
Next ==
    \/ \E d \in TickSteps : Tick(d)
    \/ \E u \in Users, pwOk \in BOOLEAN : Authenticate(u, pwOk)
    \/ \E req \in JoinRequests, ip \in IPs, storeErr \in BOOLEAN :
          Join(req, ip, storeErr)
    \/ \E q \in HasJoinedQueries : HasJoined(q.username, q.serverId, q.ip)
    \/ Sweep

Spec == Init /\ [][Next]_vars

\* The session rendezvous with two HasJoined requests in flight.
ConcQueries == [username : {"Alice", "Carol"}, serverId : ServerIDs, ip : {"", "ip1"}]

NextConc ==
    \/ \E d \in TickSteps : Tick(d)
    \/ \E u \in Users : Authenticate(u, TRUE)
    \/ \E req \in JoinRequests : Join(req, "ip1", FALSE)
    \/ \E h \in Handlers, q \in ConcQueries :
          HasJoinedGet(h, q.username, q.serverId, q.ip)
    \/ \E h \in Handlers : HasJoinedFinish(h)

SpecConc == Init /\ [][NextConc]_vars

\* The token engine.
NextToken ==
    \/ \E d \in TickSteps : Tick(d)
    \/ \E u \in Users, pwOk \in BOOLEAN : Authenticate(u, pwOk)
    \/ \E tok \in Presentable \cup {NoToken}, sel \in SelectableProfiles \cup {""} :
          RefreshBegin(tok, sel)
    \/ RefreshEnd
    \/ \E tok \in Presentable \cup {NoToken} : Validate(tok)
    \/ \E tok \in Presentable \cup {NoToken} : Invalidate(tok)
    \/ \E u \in Users, pwOk \in BOOLEAN : Signout(u, pwOk)

SpecToken == Init /\ [][NextToken]_vars

\* The token engine in front of Join, the request that presents a token.
NextGate ==
    \/ \E d \in TickSteps : Tick(d)
    \/ \E u \in Users, pwOk \in BOOLEAN : Authenticate(u, pwOk)
    \/ \E tok \in Presentable \cup {NoToken}, sel \in SelectableProfiles \cup {""} :
          RefreshBegin(tok, sel)
    \/ RefreshEnd
    \/ \E tok \in Presentable \cup {NoToken} : Validate(tok)
    \/ \E tok \in Presentable \cup {NoToken} : Invalidate(tok)
    \/ \E u \in Users, pwOk \in BOOLEAN : Signout(u, pwOk)
    \/ \E req \in JoinRequests, storeErr \in BOOLEAN : Join(req, "ip1", storeErr)

SpecGate == Init /\ [][NextGate]_vars

\* The profile API in front of a store that may fail.
NextProfiles ==
    \/ StoreFlips
    \/ \E body \in SearchBodies : SearchMultipleProfiles(body)
    \/ \E uuid \in UUIDs, param \in UnsignedParams, shared \in BOOLEAN :
          GetProfileByUUID(uuid, param, shared)

SpecProfiles == Init /\ [][NextProfiles]_vars

\* The session rendezvous next to the profile API, over one store.
NextSigned ==
    \/ StoreFlips
    \/ \E u \in Users : Authenticate(u, TRUE)
    \/ \E req \in JoinRequests : Join(req, "ip1", FALSE)
    \/ \E q \in ConcQueries : HasJoined(q.username, q.serverId, q.ip)
    \/ \E uuid \in UUIDs, param \in {"", "false"}, shared \in BOOLEAN :
          GetProfileByUUID(uuid, param, shared)

SpecSigned == Init /\ [][NextSigned]_vars

\* GenerateJWT and ValidateJWT under a changing secret and a running clock.
\* The key files and the metadata endpoint.
NextMeta ==
    \/ \E io \in IOFaults : LoadOrGenerateKeyPair(io)
    \/ \E name \in KeyFiles : RemoveKeyFile(name)
    \/ \E enabled \in BOOLEAN, apiMetadata \in BOOLEAN : WarmupCaches(enabled, apiMetadata)
    \/ \E host \in Hosts : GetAPIMetadata(host)
    \/ \E k \in Hosts : ExpireCachedResponse(k)

SpecMeta == Init /\ [][NextMeta]_vars

\* The input validators.
NextInput ==
    \/ \E u \in UsernameInputs, pw \in PasswordInputs : LoginInputValidated(u, pw)
    \/ \E u \in UUIDInputs : UUIDInputValidated(u)
    \/ \E n \in PlayerNameInputs : PlayerNameInputValidated(n)
    \/ \E input \in SanitizeInputs : InputSanitized(input)

SpecInput == Init /\ [][NextInput]_vars

NextJWT ==
    \/ \E d \in TickSteps : Tick(d)
    \/ \E secret \in Secrets : SetJWTSecret(secret)
    \/ \E u \in Users, p \in {"", "p1"}, d \in Lifetimes : MintJWT(u, p, d)
    \/ \E m \in minted : ParseJWT(m)

SpecJWT == Init /\ [][NextJWT]_vars

\* =====================================================================
\* Properties of the session rendezvous and the token engine (Spec)
\* =====================================================================

\* C1: HasJoined(username, S, ip) answers 200 with the profile iff the
\* profile of that name is the one bound to the session stored under S, the
\* session is at most 30 s old, and ip, when supplied, equals the stored
\* client IP; in every other case it answers 204.
C1_HitCondition(username, serverID, ip) ==
    LET s == sessions[serverID] IN
    /\ s # NoSession
    /\ ~GetProfileByName(username).err
    /\ GetProfileByName(username).ID = s.ProfileID
    /\ now - s.CreatedAt <= SessionTTL
    /\ (ip = "" \/ ip = s.ClientIP)

C1_HasJoinedIffBoundProfile ==
    [][\A q \in HasJoinedQueries :
         (resp'.op = "HasJoined" /\ q.username # "" /\ q.serverId # ""
            /\ HasJoined(q.username, q.serverId, q.ip))
         => IF C1_HitCondition(q.username, q.serverId, q.ip)
            THEN resp'.status = 200 /\ resp'.profile = sessions[q.serverId].ProfileID
            ELSE resp'.status = 204]_vars

\* C2: once a HasJoined for serverId S has answered 200, every later
\* HasJoined for S (with its parameters present) answers 204 until a new
\* Join stores a session under S, whatever username and ip it carries.
\* hits[S] counts the 200s answered for S since the last successful Join.
C2_OneShotSequential ==
    [][\A q \in HasJoinedQueries :
         (resp'.op = "HasJoined" /\ q.username # "" /\ q.serverId # ""
            /\ hits[q.serverId] >= 1
            /\ HasJoined(q.username, q.serverId, q.ip))
         => (resp'.status = 204 /\ hits' = hits)]_vars

C2_Witness ==
    /\ hits["s1"] = 1
    /\ resp.op = "HasJoined" /\ resp.status = 204 /\ resp.why = "session"

\* C3: for one stored session, under any interleaving of concurrently running
\* HasJoined handlers for the same serverId, at most one of them answers 200:
\* the session is consumed at most once.  served[n] counts the 200s answered
\* from the n-th stored session.
C3_ConsumedAtMostOnce ==
    \A n \in 1..MaxJoins : served[n] <= 1

\* C4: Join stores a session only for an access token in the valid state:
\* unexpired and not revoked (by invalidate, refresh or signout).
C4_JoinOnlyUnrevokedToken ==
    [][resp'.op = "Join"
       => \A req \in JoinRequests, ip \in IPs, storeErr \in BOOLEAN :
            (~IsValidToken(req.AccessToken) /\ Join(req, ip, storeErr))
            => (resp'.status # 204 /\ sessions' = sessions)]_vars

\* C5: a well-formed Join whose token carries no selected profile, or a
\* profile other than selectedProfile, is rejected with
\* ForbiddenOperationException; every rejected Join leaves the session map
\* unchanged.  Stated by contraposition: a step that answers otherwise is
\* not such a Join, and a step that answers a refusal and changes the
\* session map is no Join at all.
C5_Mismatched ==
    {req \in JoinRequests :
       /\ BindJoinRequest(req)
       /\ req.AccessToken.ProfileID = ""
            \/ req.AccessToken.ProfileID # req.SelectedProfile}

C5_JoinRejectionKeepsSessions ==
    [][resp'.op = "Join"
       => /\ ~(resp'.status = 403 /\ resp'.err = "ForbiddenOperationException")
             => \A req \in C5_Mismatched, ip \in IPs, storeErr \in BOOLEAN :
                  ~Join(req, ip, storeErr)
          /\ (resp'.status # 204 /\ sessions' # sessions)
             => \A req \in JoinRequests, ip \in IPs, storeErr \in BOOLEAN :
                  ~Join(req, ip, storeErr)]_vars

C5_Witness ==
    /\ resp.op = "Join" /\ resp.status = 403 /\ resp.why = "profile"
    /\ sessions["s1"] # NoSession

\* C6: a successful Join replaces the entry under its serverId by a session
\* carrying its own profile, client IP and creation time, and leaves the other
\* entries alone; a HasJoined is decided against the stored (later) data: an
\* ip other than the stored one never yields 200.
C6_JoinOverwrites ==
    [][/\ (resp'.op = "Join" /\ resp'.status = 204)
          => \A req \in JoinRequests, ip \in IPs, storeErr \in BOOLEAN :
            Join(req, ip, storeErr)
            => sessions' = [sessions EXCEPT ![req.ServerID] =
                              [ServerID |-> req.ServerID,
                               AccessToken |-> req.AccessToken.TokenID,
                               ProfileID |-> req.SelectedProfile,
                               ClientIP |-> ip,
                               CreatedAt |-> now,
                               seq |-> joins + 1]]
       /\ resp'.op = "HasJoined"
          => \A q \in HasJoinedQueries :
            (q.username # "" /\ q.serverId # "" /\ q.ip # ""
               /\ q.ip # sessions[q.serverId].ClientIP
               /\ HasJoined(q.username, q.serverId, q.ip))
            => resp'.status = 204]_vars

C6_Witness ==
    /\ sessions["s1"].seq = 2
    /\ resp.op = "HasJoined" /\ resp.status = 204 /\ resp.why = "ip"

\* C7: once t2 = refresh(t1) has been answered, validate(t1) is refused with
\* 403 in every later state and validate(t2) succeeds with 204 at the moment
\* of the answer; while a refresh is in flight its old token is already
\* refused, so in no state is t2 usable while t1 is still accepted.
C7_RefreshRevokesOld ==
    [][/\ \A pr \in parent' : (ValidateOutcome(pr.old).r.status)' = 403
       /\ \A t1 \in issued :
            refreshing'.tok = t1 => (ValidateOutcome(t1).r.status)' = 403
       /\ (refreshing # NoRefresh /\ RefreshEnd)
          => /\ resp'.status = 200
             /\ \E t2 \in issued' \ issued :
                  /\ parent' = parent \cup {[old |-> refreshing.tok, new |-> t2]}
                  /\ (ValidateOutcome(t2).r.status)' = 204]_vars

C7_Witness ==
    /\ resp.op = "Refresh" /\ resp.status = 200
    /\ \E pr \in parent :
         /\ ValidateOutcome(pr.old).r.status = 403
         /\ ValidateOutcome(pr.new).r.status = 204
         /\ now < pr.old.ExpiresAt

\* C8: Invalidate answers 204 for a valid, an already revoked, an expired
\* and an unknown token alike, and a second application leaves the
\* revocation set as the first one left it.
C8_InvalidateIdempotent ==
    [][resp'.op = "Invalidate"
       => \A tok \in Presentable :
         Invalidate(tok)
         => /\ resp'.status = 204
            /\ (InvalidateOutcome(tok).revoked)' = revoked'
            /\ (InvalidateOutcome(tok).r.status)' = 204]_vars

C8_Witness ==
    resp.op = "Invalidate" /\ resp.status = 204 /\ resp.why = "already"

\* C9: for every user-ID u, profile-ID p and positive lifetime d,
\* ValidateJWT(GenerateJWT(u, p, d)) returns claims with UserID = u and
\* ProfileID = p as long as the current time is before issued-at + d and the
\* secret is unchanged, and an error otherwise.
C9_RoundTripUntilIssuedAtPlusD ==
    parsed # NoParse
    => LET live == /\ parsed.seenAt < parsed.tok.IssuedAt + parsed.d
                   /\ parsed.seenUnder = parsed.secret
       IN IF live
          THEN /\ ~parsed.res.err
               /\ parsed.res.UserID = parsed.u
               /\ parsed.res.ProfileID = parsed.p
          ELSE parsed.res.err

\* C9, as the code has it: the expiry time is the minting instant plus d,
\* cut to the whole second.  ValidateJWT returns the claims u and p while
\* the current time is before that expiry time and the secret is unchanged,
\* and an error otherwise; for d a whole number of seconds the expiry time is
\* the issued-at claim plus d.
C9_RoundTripUntilExpiry ==
    parsed # NoParse
    => LET expiry == Truncate(parsed.at + parsed.d)
           live == parsed.seenAt < expiry /\ parsed.seenUnder = parsed.secret
       IN /\ IF live
             THEN /\ ~parsed.res.err
                  /\ parsed.res.UserID = parsed.u
                  /\ parsed.res.ProfileID = parsed.p
             ELSE parsed.res.err
          /\ parsed.d % TicksPerSecond = 0 => expiry = parsed.tok.IssuedAt + parsed.d

C9_Witness ==
    /\ parsed # NoParse
    /\ ~parsed.res.err
    /\ parsed.res.ProfileID = "p1"
    /\ parsed.at < parsed.seenAt
    /\ parsed.at % TicksPerSecond # 0

\* C10: a stale token (age in [ValidityWindow, RefreshWindow), not revoked)
\* is refused by Validate and by Join and accepted by Refresh; a token past
\* RefreshWindow is refused by all three.  For Join (the one step that
\* advances joins): the session it stores never carries a stale or older
\* token, and no other step, a refused Join included, touches the sessions.
C10_PastRefreshWindow(tok) ==
    tok.sig = jwtSecret /\ TokenAge(tok) >= Seconds(RefreshWindow)

C10_Aged == {tok \in issued : IsStaleToken(tok) \/ C10_PastRefreshWindow(tok)}

C10_TwoStageWindow ==
    [][/\ (C10_Aged # {} /\ resp'.op = "Validate")
          => \A tok \in C10_Aged : Validate(tok) => resp'.status = 403
       /\ IF joins' = joins + 1
          THEN \A s \in ServerIDs, tok \in C10_Aged :
                 sessions'[s].seq = joins' => sessions'[s].AccessToken # tok.TokenID
          ELSE sessions' = sessions
       /\ (C10_Aged # {} /\ refreshing = NoRefresh
             /\ (refreshing' # NoRefresh \/ resp'.op = "Refresh"))
          => \A tok \in C10_Aged :
               /\ (IsStaleToken(tok) /\ RefreshBegin(tok, ""))
                  => /\ refreshing' = [tok |-> tok, sel |-> "", was |-> "stale"]
                     /\ tok.TokenID \in revoked'
                     /\ resp' = resp
               /\ C10_PastRefreshWindow(tok)
                  => \A sel \in SelectableProfiles \cup {""} :
                       RefreshBegin(tok, sel)
                       => (resp'.op = "Refresh" /\ resp'.status = 403
                             /\ refreshing' = NoRefresh /\ revoked' = revoked)
       /\ (refreshing # NoRefresh /\ RefreshEnd)
          => /\ resp'.op = "Refresh" /\ resp'.status = 200
             /\ Cardinality(issued') = Cardinality(issued) + 1]_vars

C10_Witness ==
    /\ resp.op = "Refresh" /\ resp.status = 200 /\ resp.why = "stale"
    /\ \E pr \in parent :
         /\ pr.new.IssuedAt - pr.old.IssuedAt >= Seconds(ValidityWindow)
         /\ pr.old.TokenID \in revoked

\* C11: a Refresh that supplies selectedProfile fails, revokes nothing and
\* mints nothing when the presented token already has a profile bound or when
\* the supplied profile is not owned by the token's user; for a token Refresh
\* would otherwise accept, a bound profile yields IllegalArgumentException.
\* Hence a refresh never changes a bound profile, and binds only a profile of
\* the token's user.
C11_Refreshable(tok) ==
    tok.sig = jwtSecret /\ ~IsRevoked(tok) /\ TokenAge(tok) < Seconds(RefreshWindow)

C11_SingleBinding ==
    [][/\ (refreshing = NoRefresh /\ (refreshing' # NoRefresh \/ resp'.op = "Refresh"))
          => \A tok \in issued, sel \in SelectableProfiles :
               ((tok.ProfileID # "" \/ ProfileOwner(sel) # tok.UserID)
                  /\ RefreshBegin(tok, sel))
               => /\ resp'.op = "Refresh" /\ resp'.status \in {400, 403}
                  /\ revoked' = revoked /\ issued' = issued
                  /\ refreshing' = NoRefresh
                  /\ (tok.ProfileID # "" /\ C11_Refreshable(tok))
                     => (resp'.status = 400 /\ resp'.err = "IllegalArgumentException")
       /\ \A pr \in parent' :
            /\ pr.new.UserID = pr.old.UserID
            /\ pr.old.ProfileID # "" => pr.new.ProfileID = pr.old.ProfileID
            /\ pr.new.ProfileID # "" => ProfileOwner(pr.new.ProfileID) = pr.new.UserID]_vars

C11_Witness ==
    /\ resp.op = "Refresh" /\ resp.status = 400 /\ resp.why = "rebind"
    /\ \E pr \in parent : pr.old.ProfileID = "" /\ pr.new.ProfileID # ""

\* C12: for every list N of names, SearchMultipleProfiles answers 403
\* ForbiddenOperationException without querying the store when |N| > 10, and
\* otherwise answers 200 with at most |N| entries {id, name} whose names are
\* among N, each with that profile's UUID.
C12_Entries(names, body) ==
    /\ \A e \in body :
         /\ \E i \in 1..Len(names) : names[i] = e.name
         /\ e.id \in ProfileIDs /\ ProfileName(e.id) = e.name
    /\ Cardinality(body) <= Len(names)

C12_BatchCeiling ==
    (pout.op = "SearchMultipleProfiles" /\ pout.req.bind)
    => IF Len(pout.req.names) > maxProfiles
       THEN /\ pout.status = 403 /\ pout.err = "ForbiddenOperationException"
            /\ pout.store = ""
       ELSE pout.status = 200 /\ C12_Entries(pout.req.names, pout.body)

\* C12, as the code has it: as above, except that with |N| <= 10 a failure of
\* the store query is answered 500 InternalServerError; the 200 answer is
\* given whenever the store query succeeds.
C12_BatchCeilingUnlessStoreFails ==
    (pout.op = "SearchMultipleProfiles" /\ pout.req.bind)
    => IF Len(pout.req.names) > maxProfiles
       THEN /\ pout.status = 403 /\ pout.err = "ForbiddenOperationException"
            /\ pout.store = ""
       ELSE IF pout.store = "ok"
       THEN pout.status = 200 /\ C12_Entries(pout.req.names, pout.body)
       ELSE /\ pout.store = "InternalError"
            /\ pout.status = 500 /\ pout.err = "InternalServerError"

C12_Witness ==
    /\ pout.op = "SearchMultipleProfiles"
    /\ Len(pout.req.names) = maxProfiles
    /\ pout.status = 200
    /\ Cardinality(pout.body) = 2

\* C13: for an existing profile U, GetProfileByUUID answers 200 with the
\* names and values of U's properties; with unsigned=true, or with no or an
\* unparsable `unsigned`, no property carries a signature, and with
\* unsigned=false every property carries its signature.  An unknown UUID is
\* answered 204.  (Requests whose store call failed are left to C16.)
C13_SameNamesAndValues(uuid, body) ==
    /\ Len(body) = Len(StoredProperties(uuid))
    /\ \A i \in 1..Len(body) :
         /\ body[i].name = StoredProperties(uuid)[i].name
         /\ body[i].value = StoredProperties(uuid)[i].value

C15_ColdCache == [k \in Hosts |-> NoCached]

C15_CacheTransparent ==
    mresp.fromCache
    => LET cold == GetAPIMetadataOutcome(mresp.host, C15_ColdCache,
                                         [files EXCEPT !.public = mresp.filledWith])
       IN  /\ mresp.status = cold.status
           /\ mresp.body = cold.body

\* C16: in GetProfileByUUID and in HasJoined (once a live session was found)
\* a store result of NotFound is answered 204, and a store failure of kind
\* InternalError is answered 500 InternalServerError, never 204.
C16_Mapped(kind, status, err) ==
    /\ kind = "NotFound" => status = 204
    /\ kind = "InternalError" => (status = 500 /\ err = "InternalServerError")

C16_StoreErrorMapping ==
    [][/\ pout'.op = "GetProfileByUUID" => C16_Mapped(pout'.store, pout'.status, pout'.err)
       /\ \A q \in ConcQueries :
            (/\ ~SessionCacheGet(sessions, q.serverId).err
             /\ SessionIsValid(SessionCacheGet(sessions, q.serverId).session, now)
             /\ GetProfileByName(q.username).err
             /\ HasJoined(q.username, q.serverId, q.ip))
            => C16_Mapped(GetProfileByName(q.username).kind, resp'.status, resp'.err)]_vars

\* C17: ValidateLoginInput answers false for every password longer than 255
\* characters, and answers true only for a username that is (once cleaned of
\* surrounding white space) a valid email or a valid profile name together
\* with a password of 1 to 255 characters.
C17_LoginInputLimit ==
    vout.op = "ValidateLoginInput"
    => LET username == SanitizeInput(Str(vout.input[1]))
           password == Str(vout.input[2])
       IN  /\ Len(password) > MaxInputLen => ~vout.ok
           /\ vout.ok => /\ IsValidEmail(username) \/ IsValidPlayerName(username)
                         /\ Len(password) >= 1
                         /\ Len(password) <= MaxInputLen

\* C18: ValidateUUIDInput answers true exactly for the inputs that are
\* themselves 32 hex characters, and ValidatePlayerNameInput exactly for the
\* inputs that themselves match ^[A-Za-z0-9_]{3,16}$, white space around the
\* input included in the comparison.
C18_ExactShapes ==
    /\ vout.op = "ValidateUUIDInput"
       => (vout.ok <=> MatchClass(Str(vout.input[1]), LowerHexChars, UUIDLen, UUIDLen))
    /\ vout.op = "ValidatePlayerNameInput"
       => (vout.ok <=> MatchClass(Str(vout.input[1]), NameChars, MinNameLen, MaxNameLen))

\* C19: a successful LoadOrGenerateKeyPair on two existing key files returns
\* their contents and writes nothing; on two absent files it generates one
\* new pair, writes both files and returns that pair.  After every successful
\* call the files hold the returned pair, and a second call returns the same
\* pair without generating or writing.
C19_Returned == [private |-> kout'.private, public |-> kout'.public]

C19_LoadOrGenerateIdempotent ==
    [][\A io \in IOFaults :
         (LoadOrGenerateKeyPair(io) /\ kout'.err = "")
         => /\ (fileExists(files, "private") /\ fileExists(files, "public"))
               => /\ C19_Returned = files
                  /\ kout'.wrote = {}
                  /\ files' = files
                  /\ generated' = generated
            /\ (~fileExists(files, "private") /\ ~fileExists(files, "public"))
               => /\ generated' = generated + 1
                  /\ C19_Returned = GenerateRSAKeyPair(generated + 1)
                  /\ kout'.wrote = KeyFiles
            /\ files' = C19_Returned
            /\ LET again == LoadOrGenerateKeyPairOutcome(files', generated', "none")
               IN  /\ again.err = ""
                   /\ [private |-> again.private, public |-> again.public] = C19_Returned
                   /\ again.generated = generated'
                   /\ again.wrote = {}
                   /\ again.files = files']_vars

\* A second call has loaded the pair the first call generated.
C19_Witness ==
    /\ kout.op = "LoadOrGenerateKeyPair"
    /\ kout.err = ""
    /\ kout.wrote = {}
    /\ kout.before = GenerateRSAKeyPair(1)
    /\ kout.private = PrivateKeys[1]
    /\ kout.public = PublicKeys[1]
    /\ generated = 1
    /\ files = GenerateRSAKeyPair(1)

\* C20: HasJoined decides expiry by the age of the stored session alone: a
\* session older than 30 s is never answered 200, swept or not, and a session
\* of age up to and including 30 s is still live (answered 200 when the
\* profile and the ip match).
C20_ExpiryByAgeAlone ==
    [][\A q \in HasJoinedQueries :
         (/\ q.username # "" /\ q.serverId # ""
          /\ sessions[q.serverId] # NoSession
          /\ HasJoined(q.username, q.serverId, q.ip))
         => LET s == sessions[q.serverId]
                age == now - s.CreatedAt
                profile == GetProfileByName(q.username)
            IN  /\ age > SessionTTL => resp'.status # 200
                /\ (/\ age <= SessionTTL
                    /\ ~profile.err /\ profile.ID = s.ProfileID
                    /\ (q.ip = "" \/ q.ip = s.ClientIP))
                   => resp'.status = 200]_vars

\* C21: a HasJoined for serverId S that finds no live session under S (none
\* stored, or the stored one expired) answers 204 and leaves the session map
\* as it was; a HasJoined answers 200 for S only from a live session that a
\* successful Join stored under S and that no HasJoined has consumed; and
\* right after any successful Join a HasJoined for the joined profile's name
\* would answer 200, whatever misses came before.
C21_Live(serverID) ==
    /\ sessions[serverID] # NoSession
    /\ SessionIsValid(sessions[serverID], now)

C22_MissKeepsSession ==
    [][\A q \in HasJoinedQueries :
         (HasJoined(q.username, q.serverId, q.ip) /\ resp'.status \in {204, 400})
         => /\ sessions' = sessions
            /\ \A sid \in ServerIDs :
                 C21_Live(sid)
                 => (HasJoinedOutcome(ProfileName(sessions[sid].ProfileID), sid,
                                      sessions[sid].ClientIP).r.status)' = 200]_vars

\* A request from another ip has missed and the session is still stored.
C22_Witness ==
    /\ resp.op = "HasJoined" /\ resp.status = 204 /\ resp.why = "ip"
    /\ sessions["s1"] # NoSession
    /\ SessionIsValid(sessions["s1"], now)

\* C23: a HasJoined handler removes from the session map only the session it
\* read: when a Join has overwritten the serverId between the handler's read
\* and its delete, the session of that later Join stays stored.
C23_DeletesOnlyItsOwnSession ==
    [][\A h \in Handlers :
         HasJoinedFinish(h)
         => \A sid \in ServerIDs :
              sessions'[sid] # sessions[sid] => sessions[sid] = hj[h].session]_vars

\* C24: when the cache holds no entry for the host and the public key cannot
\* be loaded, GetAPIMetadata answers 500 InternalServerError and leaves the
\* cache as it was, so that the same request made once the key file holds a
\* key answers 200 with that key, computed and not served from the cache.
C24_FailureNotCached ==
    [][\A host \in Hosts :
         (/\ responseCache[host].status = 0
          /\ loadPublicKey(files).err
          /\ GetAPIMetadata(host))
         => /\ mresp'.status = 500
            /\ mresp'.err = "InternalServerError"
            /\ responseCache' = responseCache
            /\ \A n \in 1..Len(PublicKeys) :
                 LET later == GetAPIMetadataOutcome(host, responseCache',
                                  [files EXCEPT !.public = PublicKeys[n]])
                 IN  /\ later.status = 200
                     /\ ~later.fromCache
                     /\ later.body = APIMetadata(host, PublicKeys[n])]_vars

\* A request for a host without a cached entry has failed for want of a key.
C24_Witness ==
    /\ mresp.status = 500
    /\ mresp.err = "InternalServerError"
    /\ mresp.host = "skin.example"
    /\ ~fileExists(files, "public")
    /\ responseCache["skin.example"] = NoCached

\* C25: LoadOrGenerateKeyPair leaves every key file that existed before the
\* call with the content it had, whichever of the two files were present.
C25_NeverOverwrites ==
    [][\A io \in IOFaults :
         LoadOrGenerateKeyPair(io)
         => \A name \in KeyFiles :
              fileExists(files, name) => files'[name] = files[name]]_vars

\* C26: for every input, the result of SanitizeInput is at most 255
\* characters long, neither begins nor ends with white space, and is left
\* as it is by a second SanitizeInput.
C26_SanitizeIdempotent ==
    vout.op = "SanitizeInput"
    => /\ Len(vout.out) <= MaxInputLen
       /\ vout.out # <<>>
          => /\ vout.out[1] \notin SpaceChars
             /\ vout.out[Len(vout.out)] \notin SpaceChars
       /\ SanitizeInput(vout.out) = vout.out

====
